---- MODULE Spec2Model ----
(***************************************************************************)
(* Local cache of the hanks lab database (base_db.LocalDB_Base).           *)
(*                                                                         *)
(* The model covers the three cached kinds (behavioural sessions, units,   *)
(* fiber photometry recordings), the per-session partition files, the      *)
(* in-memory index tables (self.__local_data), the index file              *)
(* local_data.pkl, construction with its cold-start rebuild, and the three *)
(* get_*_data handlers.  The remote database (db_access) is a fixed set of *)
(* rows whose payload changes with the remote revision `rev`.              *)
(***************************************************************************)
EXTENDS Integers, Sequences, FiniteSets, TLC

\* ------------------------------------------------------------------ bounds
NSess == 2      \* sessions 1..NSess exist in the remote database
NUnit == 2      \* units 1..NUnit exist in met.units
NFp == 2        \* recordings 1..NFp exist in met.fp_data
NTrial == 2     \* trials per behavioural session
MaxRev == 2     \* the remote payload takes revisions 1..MaxRev
MaxReq == 2     \* longest id list handed to a get call
MaxCalls == 2   \* get calls per behaviour

\* ------------------------------------------------------------- table names
Kinds == {"units", "fp_data", "sessions"}

IdCol(kind) ==
    CASE kind = "units" -> "unitid"
      [] kind = "fp_data" -> "fpid"
      [] kind = "sessions" -> "sessid"

IndexCols(kind) ==
    CASE kind = "units" -> {"unitid", "subjid", "sessid"}
      [] kind = "fp_data" -> {"fpid", "subjid", "sessid"}
      [] kind = "sessions" -> {"sessid", "subjid", "sessiondate"}

NId(kind) ==
    CASE kind = "units" -> NUnit
      [] kind = "fp_data" -> NFp
      [] kind = "sessions" -> NSess

\* ids a caller may ask for: the remote ones and one the remote does not know
Askable(kind) == 1..(NId(kind) + 1)

\* ------------------------------------------------------ table primitives
RECURSIVE SetToSeq(_)
\* sorted(...) of a set of integers
SetToSeq(S) ==
    IF S = {} THEN <<>>
    ELSE LET m == CHOOSE x \in S : \A y \in S : x <= y
         IN <<m>> \o SetToSeq(S \ {m})

Range(tbl) == {tbl[i] : i \in 1..Len(tbl)}

ColValues(tbl, col) == {tbl[i][col] : i \in 1..Len(tbl)}

HasCols(tbl, cols) == \A i \in 1..Len(tbl) : cols \subseteq DOMAIN tbl[i]

\* df[[cols]]
Project(tbl, cols) == [i \in 1..Len(tbl) |-> [c \in cols |-> tbl[i][c]]]

RECURSIVE Insert(_, _, _)
Insert(tbl, row, col) ==
    IF tbl = <<>> THEN <<row>>
    ELSE IF row[col] < Head(tbl)[col] THEN <<row>> \o tbl
    ELSE <<Head(tbl)>> \o Insert(Tail(tbl), row, col)

RECURSIVE SortValues(_, _)
\* df.sort_values(col): rows with equal keys keep their order
SortValues(tbl, col) ==
    IF tbl = <<>> THEN <<>>
    ELSE Insert(SortValues(SubSeq(tbl, 1, Len(tbl) - 1), col), tbl[Len(tbl)], col)

RECURSIVE DropDuplicates(_)
\* df.drop_duplicates(): the first occurrence of every row is kept
DropDuplicates(tbl) ==
    IF tbl = <<>> THEN <<>>
    ELSE LET init == DropDuplicates(SubSeq(tbl, 1, Len(tbl) - 1))
             r == tbl[Len(tbl)]
         IN IF r \in Range(init) THEN init ELSE Append(init, r)

RECURSIVE Filter(_, _, _)
\* df[df[col].isin(ids)]
Filter(tbl, col, ids) ==
    IF tbl = <<>> THEN <<>>
    ELSE (IF Head(tbl)[col] \in ids THEN <<Head(tbl)>> ELSE <<>>)
            \o Filter(Tail(tbl), col, ids)

RECURSIVE DropRows(_, _, _)
\* df.drop(df[df[col].isin(ids)].index)
DropRows(tbl, col, ids) ==
    IF tbl = <<>> THEN <<>>
    ELSE (IF Head(tbl)[col] \in ids THEN <<>> ELSE <<Head(tbl)>>)
            \o DropRows(Tail(tbl), col, ids)

CountId(tbl, col, id) == Cardinality({i \in 1..Len(tbl) : tbl[i][col] = id})

\* ------------------------------------------------------- remote database
SubjOf(s) == (s % 2) + 1

DateOf(s) == 100 + s

\* met.units.sessid: odd units were recorded in session 2, even ones in session 1
UnitSess(u) == IF u % 2 = 1 THEN 2 ELSE 1

\* met.fp_data.sessid: two recordings per session
FpSess(f) == (f + 1) \div 2

ParentSess(kind, id) == IF kind = "units" THEN UnitSess(id) ELSE FpSess(id)

UsPerSec == 1000000

unit_row(u, r) ==
    [unitid |-> u, subjid |-> SubjOf(UnitSess(u)), sessid |-> UnitSess(u),
     spike_timestamps |-> (10 * u + r) * UsPerSec]

MLOf(f, r) == IF (f + r) % 2 = 0 THEN 1 ELSE 0 - 1

SideOf(ml) == IF ml > 0 THEN "left" ELSE "right"

fp_row(f, r) ==
    [fpid |-> f, subjid |-> SubjOf(FpSess(f)), sessid |-> FpSess(f),
     ML |-> MLOf(f, r), side |-> SideOf(MLOf(f, r))]

trial_row(s, t, r) ==
    [sessid |-> s, subjid |-> SubjOf(s), sessiondate |-> DateOf(s), trial |-> t,
     rel_click_times |-> r, stim_start_time |-> 10 * t]

\* db_access.get_session_data for one session id
get_session_data(s, r) ==
    IF s \in 1..NSess THEN [t \in 1..NTrial |-> trial_row(s, t, r)] ELSE <<>>

\* db_access.get_unit_data: rows of the known ids, sorted by unitid
get_unit_data(ids, r) ==
    LET known == SetToSeq(ids \cap 1..NUnit)
    IN [i \in 1..Len(known) |-> unit_row(known[i], r)]

\* db_access.get_fp_data: rows of the known ids, sorted by fpid
get_fp_data(ids, r) ==
    LET known == SetToSeq(ids \cap 1..NFp)
    IN [i \in 1..Len(known) |-> fp_row(known[i], r)]

fetch_rows(kind, ids, r) ==
    IF kind = "units" THEN get_unit_data(ids, r) ELSE get_fp_data(ids, r)

\* a lookup that puts all the known ids under the first of their sessions
get_sess_ids_batched(kind, ids) ==
    LET known == ids \cap 1..NId(kind)
        sess == {ParentSess(kind, i) : i \in known}
    IN [s \in {t \in sess : \A u \in sess : t <= u} |-> known]

\* a lookup that resolves nothing as soon as one id is unknown
get_sess_ids_strict(kind, ids) ==
    LET known == IF ids \subseteq 1..NId(kind) THEN ids ELSE {}
        sess == {ParentSess(kind, i) : i \in known}
    IN [s \in sess |-> {i \in known : ParentSess(kind, i) = s}]

\* db_access.get_unit_sess_ids / get_fp_sess_ids: the known ids grouped by
\* session; the dictionary is keyed by the sessions in ascending order
get_sess_ids(kind, ids) ==
    LET known == ids \cap 1..NId(kind)
        sess == {ParentSess(kind, i) : i \in known}
    IN [s \in sess |-> {i \in known : ParentSess(kind, i) = s}]

\* ------------------------------------------------------------- formatters
\* LocalDB_Base._format_unit_data: timestamps from us to s
format_unit_data(tbl) ==
    [i \in 1..Len(tbl) |->
        [tbl[i] EXCEPT !.spike_timestamps = tbl[i].spike_timestamps \div UsPerSec]]

\* LocalDB_Base._format_fp_data: side recomputed from ML
format_fp_data(tbl) ==
    [i \in 1..Len(tbl) |-> [tbl[i] EXCEPT !.side = SideOf(tbl[i].ML)]]

\* LocalDB_PClicksDiscrim._format_sess_data: absolute click times
format_sess_data(tbl) ==
    [i \in 1..Len(tbl) |->
        [c \in DOMAIN tbl[i] \cup {"abs_click_times"} |->
            IF c = "abs_click_times"
            THEN tbl[i].rel_click_times + tbl[i].stim_start_time
            ELSE tbl[i][c]]]

format_rows(kind, tbl) ==
    IF kind = "units" THEN format_unit_data(tbl) ELSE format_fp_data(tbl)

\* ------------------------------------------------------------------ state
VARIABLES
    alive,          \* a LocalDB object exists (its constructor returned)
    save_locally,   \* self._save_locally
    local_data,     \* self.__local_data: one index table per kind
    index_file,     \* local_data.pkl
    parts,          \* partition files: parts[kind][sess] exists iff the file does
    rev,            \* revision of the payload in the remote database
    last,           \* the call that has just finished, until its caller resumes
    ncalls,         \* get calls made so far
    nfetch          \* per id: fetches with rows made by calls with reload=False

vars == <<alive, save_locally, local_data, index_file, parts, rev, last, ncalls, nfetch>>

EmptyIndex == [k \in Kinds |-> <<>>]

NoFiles == [k \in Kinds |-> <<>>]

NoCall ==
    [kind |-> "none", mode |-> "idle", ids |-> <<>>, reload |-> FALSE, known |-> {},
     events |-> <<>>, result |-> <<>>, error |-> "none"]

Event(op, s, ids) == [op |-> op, sess |-> s, ids |-> ids]

\* a write that never reaches the disk
to_pickle_lost(files, s, tbl) == files

\* the file of session s holds tbl afterwards (DataFrame.to_pickle)
to_pickle(files, s, tbl) ==
    [x \in DOMAIN files \cup {s} |-> IF x = s THEN tbl ELSE files[x]]

\* what is left at the path of a pickle file whose write was cut short: no table
Torn == <<[torn |-> TRUE]>>

IsTorn(file) == file = Torn

\* a test that takes a file it cannot read for a missing one
path_exists_readable(files, s) == s \in DOMAIN files /\ files[s] # Torn

\* path.exists(data_path)
path_exists(files, s) == s \in DOMAIN files

\* to_pickle(data_path) writes to the path itself, so a process that dies
\* during the write leaves a cut-off file at the path
to_pickle_cut(files, s) ==
    [x \in DOMAIN files \cup {s} |-> IF x = s THEN Torn ELSE files[x]]

\* sorted(ids) of a list of integers
RECURSIVE InsertInt(_, _)
InsertInt(seq, x) ==
    IF seq = <<>> THEN <<x>>
    ELSE IF x < Head(seq) THEN <<x>> \o seq
    ELSE <<Head(seq)>> \o InsertInt(Tail(seq), x)

\* the ids in the order they were given
sorted_not(seq) == seq

RECURSIVE sorted(_)
sorted(seq) ==
    IF seq = <<>> THEN <<>> ELSE InsertInt(sorted(Tail(seq)), Head(seq))

\* a load that runs the unit formatter on the stored rows again
read_pickle_formatted(files, s) ==
    [i \in 1..Len(files[s]) |->
        IF "spike_timestamps" \in DOMAIN files[s][i]
        THEN [files[s][i] EXCEPT !.spike_timestamps = @ \div UsPerSec]
        ELSE files[s][i]]

\* pd.read_pickle(data_path): the table as it was stored
read_pickle(files, s) == files[s]

\* ------------------------------------------------------------ index update
\* an index update that records nothing
update_local_ids_none(kind, idx, new_data) == idx

\* __update_local_units / __update_local_fp_data: concat, then sort by id
update_local_ids(kind, idx, new_data) ==
    SortValues(idx \o Project(new_data, IndexCols(kind)), IdCol(kind))

\* a sessions update that adds one index row per trial
update_local_sessions_all(idx, sess_data) ==
    SortValues(idx \o Project(sess_data, IndexCols("sessions")), "sessid")

\* __update_local_sessions: concat of the de-duplicated identity columns
update_local_sessions(idx, sess_data) ==
    SortValues(idx \o DropDuplicates(Project(sess_data, IndexCols("sessions"))), "sessid")

\* ------------------------------------------------- get_unit_data / get_fp_data
\* a gap analysis that ignores the index
missing_ids_all(ids, idx, col, reload) == ids

\* missing_units / missing_ids (base_db.py 190-193, 301-304)
missing_ids(ids, idx, col, reload) ==
    IF reload THEN ids ELSE ids \ ColValues(idx, col)

\* a reload that drops every stored row of the session
kept_rows_none(sess_data, col, new_data, reload) == IF reload THEN <<>> ELSE sess_data

\* a merge that never removes the reloaded rows
kept_rows_all(sess_data, col, new_data, reload) == sess_data

\* the stored rows that survive the merge (base_db.py 216-218, 327-329)
kept_rows(sess_data, col, new_data, reload) ==
    IF reload THEN DropRows(sess_data, col, ColValues(new_data, col)) ELSE sess_data

FailLookup == 0 - 1

\* the point at which the process dies while it writes the partition of session s
CrashAt(s) == FailLookup - s

\* a selection that returns the whole partition
select_rows_all(sess_data, col, ids) == sess_data

\* sess_unit_data[sess_unit_data['unitid'].isin(unit_ids)] (base_db.py 232, 343)
select_rows(sess_data, col, ids) == Filter(sess_data, col, ids)

\* a merge that keeps only the rows just fetched
merge_rows_overwrite(exists, kept, new_data, col) == new_data

\* the table written to the partition file (base_db.py 212-222): the fetched
\* rows alone for a new partition, else the kept rows and the fetched rows,
\* sorted by id
merge_rows(exists, kept, new_data, col) ==
    IF ~exists THEN new_data ELSE SortValues(kept \o new_data, col)

\* one pass of the loop over unit_sess_ids.items() (base_db.py 198-232)
sess_step(kind, s, sess_ids, st, ids, missing, reload, save, fail, r) ==
    LET col == IdCol(kind)
        exists == path_exists(st.part, s)
        sess_data == IF exists THEN read_pickle(st.part, s) ELSE <<>>
        missing_sess == sess_ids \cap missing
        ev0 == IF exists THEN Append(st.events, Event("read", s, ColValues(sess_data, col)))
               ELSE st.events
    IN IF exists /\ IsTorn(st.part[s])
       THEN [st EXCEPT !.events = Append(@, Event("read", s, {})),
                       !.err = "UnpicklingError"]
       ELSE IF missing_sess = {}
       THEN IF ~exists
            THEN [st EXCEPT !.events = ev0, !.err = "TypeError"]
            ELSE [st EXCEPT !.events = ev0, !.out = @ \o select_rows(sess_data, col, ids)]
       ELSE IF fail = s
       THEN [st EXCEPT !.events = Append(ev0, Event("fetch", s, missing_sess)),
                       !.err = "RemoteError"]
       ELSE IF save /\ fail = CrashAt(s)
       THEN [st EXCEPT !.part = to_pickle_cut(@, s),
                       !.events = ev0 \o <<Event("fetch", s, missing_sess),
                                           Event("format", s, missing_sess),
                                           Event("write", s, {})>>,
                       !.err = "Crash"]
       ELSE LET raw == fetch_rows(kind, missing_sess, r)
                new_data == format_rows(kind, raw)
                kept == kept_rows(sess_data, col, new_data, reload)
                merged == merge_rows(exists, kept, new_data, col)
                ev1 == ev0 \o <<Event("fetch", s, missing_sess),
                                Event("format", s, ColValues(raw, col))>>
                ev2 == IF save THEN Append(ev1, Event("write", s, ColValues(merged, col)))
                       ELSE ev1
                ev3 == Append(ev2, Event("index", s, ColValues(new_data, col)))
                ev4 == IF save THEN Append(ev3, Event("flush", s, {})) ELSE ev3
            IN [part |-> IF save THEN to_pickle(st.part, s, merged) ELSE st.part,
                idx |-> update_local_ids(kind, st.idx, new_data),
                saved |-> st.saved \/ save,
                out |-> st.out \o select_rows(merged, col, ids),
                events |-> ev4,
                err |-> "none"]

RECURSIVE sess_loop(_, _, _, _, _, _, _, _, _, _)
sess_loop(kind, todo, groups, st, ids, missing, reload, save, fail, r) ==
    IF todo = <<>> \/ st.err # "none" THEN st
    ELSE sess_loop(kind, Tail(todo), groups,
                   sess_step(kind, Head(todo), groups[Head(todo)], st, ids, missing,
                             reload, save, fail, r),
                   ids, missing, reload, save, fail, r)

\* the whole of get_unit_data / get_fp_data up to the table it returns
get_data(kind, req, reload, save, fail, r, idx, files) ==
    LET col == IdCol(kind)
        ids == Range(req)
        missing == missing_ids(ids, idx, col, reload)
        groups == get_sess_ids(kind, ids)
        st0 == [part |-> files, idx |-> idx, saved |-> FALSE, out |-> <<>>,
                events |-> <<Event("lookup", 0, ids)>>, err |-> "none"]
    IN IF fail = FailLookup THEN [st0 EXCEPT !.err = "RemoteError"]
       ELSE IF DOMAIN groups = {} THEN [st0 EXCEPT !.err = "KeyError"]
       ELSE LET st == sess_loop(kind, SetToSeq(DOMAIN groups), groups, st0, ids,
                                missing, reload, save, fail, r)
            IN IF st.err # "none" THEN st
               ELSE [st EXCEPT !.out = SortValues(@, col)]

\* ------------------------------------------------------- get_behavior_data
\* a test that never skips a session
no_rows_never(raw) == FALSE

\* len(sess_data) == 0 (base_db.py 102)
no_rows(raw) == Len(raw) = 0

\* one pass of the loop over sess_ids (base_db.py 94-113)
beh_step(s, st, reload, save, fail, r) ==
    IF path_exists(st.part, s) /\ ~reload
    THEN IF IsTorn(st.part[s])
         THEN [st EXCEPT !.events = Append(@, Event("read", s, {})),
                         !.err = "UnpicklingError"]
         ELSE [st EXCEPT !.events = Append(@, Event("read", s, {s})),
                         !.out = @ \o read_pickle(st.part, s)]
    ELSE IF fail = s
    THEN [st EXCEPT !.events = Append(@, Event("fetch", s, {s})), !.err = "RemoteError"]
    ELSE IF save /\ fail = CrashAt(s) /\ s \in 1..NSess
    THEN [st EXCEPT !.part = to_pickle_cut(@, s),
                    !.events = @ \o <<Event("fetch", s, {s}), Event("format", s, {s}),
                                      Event("write", s, {})>>,
                    !.err = "Crash"]
    ELSE LET raw == get_session_data(s, r)
             sess_data == format_sess_data(raw)
             ev1 == st.events \o <<Event("fetch", s, {s}),
                                   Event("format", s, ColValues(raw, "sessid"))>>
             ev2 == IF save THEN Append(ev1, Event("write", s, {s})) ELSE ev1
             ev3 == Append(ev2, Event("index", s, {s}))
             ev4 == IF save THEN Append(ev3, Event("flush", s, {})) ELSE ev3
         IN IF no_rows(raw)
            THEN [st EXCEPT !.events = Append(@, Event("fetch", s, {s}))]
            ELSE [part |-> IF save THEN to_pickle(st.part, s, sess_data) ELSE st.part,
                  idx |-> update_local_sessions(st.idx, sess_data),
                  saved |-> st.saved \/ save,
                  out |-> st.out \o sess_data,
                  events |-> ev4,
                  err |-> "none"]

RECURSIVE beh_loop(_, _, _, _, _, _)
beh_loop(todo, st, reload, save, fail, r) ==
    IF todo = <<>> \/ st.err # "none" THEN st
    ELSE beh_loop(Tail(todo), beh_step(Head(todo), st, reload, save, fail, r),
                  reload, save, fail, r)

\* the whole of get_behavior_data up to the table it returns
get_behavior_data(req, reload, save, fail, r, idx, files) ==
    LET st0 == [part |-> files, idx |-> idx, saved |-> FALSE, out |-> <<>>,
                events |-> <<>>, err |-> "none"]
        st == beh_loop(sorted(req), st0, reload, save, fail, r)
    IN IF st.err # "none" THEN st
       ELSE [st EXCEPT !.out = SortValues(SortValues(@, "trial"), "sessid")]

\* ------------------------------------------------------ __load_local_data
\* the index update the cold-start scan applies to the table `kind`
update_local(kind, idx, data) ==
    IF kind = "sessions" THEN update_local_sessions(idx, data)
    ELSE update_local_ids(kind, idx, data)

\* a cold start that reads no partition file
scan_files_none(kind, todo, files, idx) == [idx |-> idx, err |-> "none", read |-> <<>>]

RECURSIVE scan_files(_, _, _, _)
\* for file in files: self.__update_local_<kind>(pd.read_pickle(file), False);
\* selecting a column the file does not have raises KeyError
scan_files(kind, todo, files, idx) ==
    IF todo = <<>> THEN [idx |-> idx, err |-> "none", read |-> <<>>]
    ELSE IF IsTorn(files[Head(todo)])
    THEN [idx |-> idx, err |-> "UnpicklingError", read |-> <<Head(todo)>>]
    ELSE IF ~HasCols(files[Head(todo)], IndexCols(kind))
    THEN [idx |-> idx, err |-> "KeyError", read |-> <<Head(todo)>>]
    ELSE LET rest == scan_files(kind, Tail(todo), files,
                                update_local(kind, idx, files[Head(todo)]))
         IN [rest EXCEPT !.read = <<Head(todo)>> \o @]

\* the branch `if reload:` of __load_local_data (base_db.py 444-463): the unit
\* files feed the units table, the fp files and the behaviour files both feed
\* the sessions table
rebuild_local_data(files) ==
    LET u == scan_files("units", SetToSeq(DOMAIN files["units"]), files["units"], <<>>)
        f == IF u.err # "none" THEN [idx |-> <<>>, err |-> u.err, read |-> <<>>]
             ELSE scan_files("sessions", SetToSeq(DOMAIN files["fp_data"]),
                             files["fp_data"], <<>>)
        b == IF f.err # "none" THEN [f EXCEPT !.read = <<>>]
             ELSE scan_files("sessions", SetToSeq(DOMAIN files["sessions"]),
                             files["sessions"], f.idx)
    IN [data |-> [k \in Kinds |->
                    CASE k = "units" -> u.idx
                      [] k = "fp_data" -> <<>>
                      [] k = "sessions" -> b.idx],
        err |-> b.err,
        events |-> [i \in 1..Len(u.read) |-> Event("scan_units", u.read[i], {})]
                   \o [i \in 1..Len(f.read) |-> Event("scan_fp", f.read[i], {})]
                   \o [i \in 1..Len(b.read) |-> Event("scan_beh", b.read[i], {})]]

\* ----------------------------------------------------------------- actions
Requests(kind) == UNION {[1..n -> Askable(kind)] : n \in 1..MaxReq}

\* where the remote database may fail during a call: nowhere (0), in the
\* parent-session lookup, or in the row fetch of one session
FailPoints(kind, req) ==
    IF kind = "sessions" THEN {0} \cup Range(req)
    ELSE {0, FailLookup} \cup DOMAIN get_sess_ids(kind, Range(req))

\* where the process may die in a partition write during a call
CrashPoints(kind, req) ==
    IF kind = "sessions" THEN {CrashAt(s) : s \in Range(req)}
    ELSE {CrashAt(s) : s \in DOMAIN get_sess_ids(kind, Range(req))}

\* ids of the rows the remote returned to the fetches of a call
FetchedIds(events) ==
    UNION {events[i].ids : i \in {j \in 1..Len(events) : events[j].op = "format"}}

\* how many fetches of a call returned a row of id i
FetchCount(events, i) ==
    Cardinality({j \in 1..Len(events) : events[j].op = "format" /\ i \in events[j].ids})

Min2(a, b) == IF a <= b THEN a ELSE b

\* ids handed to the row fetches of a call
AskedIds(events) ==
    UNION {events[i].ids : i \in {j \in 1..Len(events) : events[j].op = "fetch"}}

Init ==
    /\ alive = TRUE
    /\ save_locally \in BOOLEAN
    /\ local_data = EmptyIndex
    /\ index_file = IF save_locally THEN [status |-> "ok", data |-> EmptyIndex]
                    ELSE [status |-> "absent", data |-> EmptyIndex]
    /\ parts = NoFiles
    /\ rev = 1
    /\ last = NoCall
    /\ ncalls = 0
    /\ nfetch = [k \in Kinds |-> [i \in Askable(k) |-> 0]]

Idle == last.kind = "none"

\* an index save that ignores self._save_locally
save_local_data_always(save, file, tables) == [status |-> "ok", data |-> tables]

\* an index save that writes nothing
save_local_data_never(save, file, tables) == file

\* __save_local_data: the index file holds the tables afterwards, if saving is on
save_local_data(save, file, tables) ==
    IF save THEN [status |-> "ok", data |-> tables] ELSE file

\* a cold-start test that only looks whether the file exists
needs_rebuild_absent(file) == file.status = "absent"

\* reload in __load_local_data (base_db.py 435-442): the file does not exist,
\* or the dictionary in it does not have exactly the three table names as keys
needs_rebuild(file) == file.status \in {"absent", "badkeys"}

\* LocalDB_Base.__init__: a new process opens the data directory
Construct(save) ==
    /\ Idle
    /\ save_locally' = save
    /\ IF index_file.status = "corrupt"
       THEN /\ local_data' = EmptyIndex
            /\ alive' = FALSE
            /\ last' = [NoCall EXCEPT !.kind = "construct", !.mode = "unreadable",
                                      !.error = "UnpicklingError"]
            /\ UNCHANGED index_file
       ELSE IF ~needs_rebuild(index_file)
       THEN /\ local_data' = index_file.data
            /\ alive' = TRUE
            /\ last' = [NoCall EXCEPT !.kind = "construct", !.mode = "loaded"]
            /\ UNCHANGED index_file
       ELSE \E rb \in {rebuild_local_data(parts)} :
               /\ local_data' = rb.data
               /\ alive' = (rb.err = "none")
               /\ last' = [NoCall EXCEPT !.kind = "construct",
                                         !.mode = IF rb.err = "none" THEN "rebuilt"
                                                  ELSE "failed",
                                         !.events = rb.events,
                                         !.error = rb.err]
               /\ index_file' = IF rb.err = "none"
                                THEN save_local_data(save, index_file, rb.data)
                                ELSE index_file
    /\ UNCHANGED <<parts, rev, ncalls, nfetch>>

\* the state a finished call of the given mode leaves behind
FinishAs(mode, kind, req, reload, st) ==
    /\ local_data' = [local_data EXCEPT ![kind] = st.idx]
    /\ parts' = [parts EXCEPT ![kind] = st.part]
    /\ index_file' = IF st.saved
                     THEN save_local_data(save_locally, index_file,
                                          [local_data EXCEPT ![kind] = st.idx])
                     ELSE index_file
    /\ last' = [kind |-> kind, mode |-> mode, ids |-> sorted(req), reload |-> reload,
                known |-> ColValues(local_data[kind], IdCol(kind)),
                events |-> st.events,
                result |-> IF st.err = "none" THEN st.out ELSE <<>>,
                error |-> st.err]
    /\ ncalls' = ncalls + 1
    /\ nfetch' = IF reload THEN nfetch
                 ELSE [nfetch EXCEPT ![kind] =
                        [i \in Askable(kind) |->
                            Min2(2, @[i] + FetchCount(st.events, i))]]
    /\ alive' = IF st.err = "Crash" THEN FALSE ELSE alive
    /\ UNCHANGED <<save_locally, rev>>

\* the state a finished get_behavior_data, get_unit_data or get_fp_data call
\* of the caller leaves behind
Finish(kind, req, reload, st) == FinishAs("get", kind, req, reload, st)

GetBehaviorData(req, reload, fail) ==
    /\ Idle /\ alive /\ ncalls < MaxCalls
    /\ \E st \in {get_behavior_data(req, reload, save_locally, fail, rev,
                                    local_data["sessions"], parts["sessions"])} :
            Finish("sessions", req, reload, st)

GetUnitData(req, reload, fail) ==
    /\ Idle /\ alive /\ ncalls < MaxCalls
    /\ \E st \in {get_data("units", req, reload, save_locally, fail, rev,
                           local_data["units"], parts["units"])} :
            Finish("units", req, reload, st)

GetFpData(req, reload, fail) ==
    /\ Idle /\ alive /\ ncalls < MaxCalls
    /\ \E st \in {get_data("fp_data", req, reload, save_locally, fail, rev,
                           local_data["fp_data"], parts["fp_data"])} :
            Finish("fp_data", req, reload, st)

\* the column of the index table that get_local_behavior_data,
\* get_local_unit_data and get_local_fp_data select (base_db.py 164, 280, 403)
LocalCol(kind) ==
    CASE kind = "sessions" -> "sessid"
      [] kind = "units" -> "unitid"
      [] kind = "fp_data" -> "unitid"

\* df[col]: the values of one column, row by row
column(tbl, col) == [i \in 1..Len(tbl) |-> tbl[i][col]]

\* the ids get_local_<kind> hands to get_<kind>: one per row of the index table
local_request(kind, idx) == column(idx, LocalCol(kind))

\* get_local_behavior_data, get_local_unit_data, get_local_fp_data
\* (reload is left at its default False)
get_local_data(kind, save, r, idx, files) ==
    IF LocalCol(kind) \notin IndexCols(kind)
    THEN [part |-> files, idx |-> idx, saved |-> FALSE, out |-> <<>>,
          events |-> <<>>, err |-> "KeyError"]
    ELSE IF kind = "sessions"
    THEN get_behavior_data(local_request(kind, idx), FALSE, save, FailLookup, r,
                           idx, files)
    ELSE get_data(kind, local_request(kind, idx), FALSE, save, 0, r, idx, files)

\* a caller may end a run of get calls with one more get_local call
GetLocalData(kind) ==
    /\ Idle /\ alive /\ ncalls < MaxCalls + 1
    /\ \E st \in {get_local_data(kind, save_locally, rev, local_data[kind],
                                 parts[kind])} :
            FinishAs("local", kind,
                     IF LocalCol(kind) \in IndexCols(kind)
                     THEN local_request(kind, local_data[kind]) ELSE <<>>,
                     FALSE, st)

\* the call returns (or raises) and its caller carries on
Return ==
    /\ ~Idle
    /\ last' = NoCall
    /\ UNCHANGED <<alive, save_locally, local_data, index_file, parts, rev, ncalls, nfetch>>

\* local_data.pkl disappears from the data directory
DeleteIndex ==
    /\ Idle
    /\ index_file.status # "absent"
    /\ index_file' = [status |-> "absent", data |-> EmptyIndex]
    /\ UNCHANGED <<alive, save_locally, local_data, parts, rev, last, ncalls, nfetch>>

\* local_data.pkl is left in a state no save of this program produces: written
\* by a version with other tables ("badkeys"), or cut short ("corrupt")
SpoilIndex(how) ==
    /\ Idle
    /\ index_file.status = "ok"
    /\ index_file' = [status |-> how, data |-> EmptyIndex]
    /\ UNCHANGED <<alive, save_locally, local_data, parts, rev, last, ncalls, nfetch>>

\* the rows in the remote database are revised
RemoteUpdate ==
    /\ Idle
    /\ rev < MaxRev
    /\ rev' = rev + 1
    /\ UNCHANGED <<alive, save_locally, local_data, index_file, parts, last, ncalls, nfetch>>

Next ==
    \/ \E save \in BOOLEAN : Construct(save)
    \/ \E req \in Requests("sessions"), reload \in BOOLEAN :
         \E fail \in FailPoints("sessions", req) : GetBehaviorData(req, reload, fail)
    \/ \E req \in Requests("units"), reload \in BOOLEAN :
         \E fail \in FailPoints("units", req) : GetUnitData(req, reload, fail)
    \/ \E req \in Requests("fp_data"), reload \in BOOLEAN :
         \E fail \in FailPoints("fp_data", req) : GetFpData(req, reload, fail)
    \/ Return
    \/ DeleteIndex
    \/ \E how \in {"badkeys", "corrupt"} : SpoilIndex(how)
    \/ RemoteUpdate

Spec == Init /\ [][Next]_vars

\* every process on the data directory runs with save_locally=True
InitSaved == Init /\ save_locally = TRUE

NextSaved ==
    \/ Construct(TRUE)
    \/ \E req \in Requests("sessions"), reload \in BOOLEAN :
         \E fail \in FailPoints("sessions", req) : GetBehaviorData(req, reload, fail)
    \/ \E req \in Requests("units"), reload \in BOOLEAN :
         \E fail \in FailPoints("units", req) : GetUnitData(req, reload, fail)
    \/ \E req \in Requests("fp_data"), reload \in BOOLEAN :
         \E fail \in FailPoints("fp_data", req) : GetFpData(req, reload, fail)
    \/ Return
    \/ DeleteIndex
    \/ RemoteUpdate

SpecSaved == InitSaved /\ [][NextSaved]_vars

\* every process saves, and every call asks for one id with reload=False
NextIncr ==
    \/ Construct(TRUE)
    \/ \E req \in [1..1 -> Askable("sessions")] :
         \E fail \in FailPoints("sessions", req) : GetBehaviorData(req, FALSE, fail)
    \/ \E req \in [1..1 -> Askable("units")] :
         \E fail \in FailPoints("units", req) : GetUnitData(req, FALSE, fail)
    \/ \E req \in [1..1 -> Askable("fp_data")] :
         \E fail \in FailPoints("fp_data", req) : GetFpData(req, FALSE, fail)
    \/ Return
    \/ DeleteIndex
    \/ RemoteUpdate

SpecIncr == InitSaved /\ [][NextIncr]_vars

\* no process saves: the data directory stays empty
InitUnsaved == Init /\ save_locally = FALSE

NextUnsaved ==
    \/ Construct(FALSE)
    \/ \E req \in Requests("sessions"), reload \in BOOLEAN :
         \E fail \in FailPoints("sessions", req) : GetBehaviorData(req, reload, fail)
    \/ \E req \in Requests("units"), reload \in BOOLEAN :
         \E fail \in FailPoints("units", req) : GetUnitData(req, reload, fail)
    \/ \E req \in Requests("fp_data"), reload \in BOOLEAN :
         \E fail \in FailPoints("fp_data", req) : GetFpData(req, reload, fail)
    \/ Return
    \/ RemoteUpdate

SpecUnsaved == InitUnsaved /\ [][NextUnsaved]_vars

\* every process saves, and a process may die while it writes a partition file
NextCrash ==
    \/ Construct(TRUE)
    \/ \E req \in Requests("sessions"), reload \in BOOLEAN :
         \E fail \in {0} \cup CrashPoints("sessions", req) :
            GetBehaviorData(req, reload, fail)
    \/ \E req \in Requests("units"), reload \in BOOLEAN :
         \E fail \in {0} \cup CrashPoints("units", req) : GetUnitData(req, reload, fail)
    \/ \E req \in Requests("fp_data"), reload \in BOOLEAN :
         \E fail \in {0} \cup CrashPoints("fp_data", req) : GetFpData(req, reload, fail)
    \/ Return
    \/ DeleteIndex

SpecCrash == InitSaved /\ [][NextCrash]_vars

\* session ids a caller may ask for, with one below and one above the
\* sessions the remote database has
BehIds == 0..(NSess + 1)

\* behaviour data only, the remote working
NextBeh ==
    \/ \E save \in BOOLEAN : Construct(save)
    \/ \E req \in UNION {[1..n -> BehIds] : n \in 1..MaxReq}, reload \in BOOLEAN :
         GetBehaviorData(req, reload, FailLookup)
    \/ Return
    \/ RemoteUpdate

SpecBeh == Init /\ [][NextBeh]_vars

\* get calls with the remote working, followed by get_local calls
NextLocal ==
    \/ \E save \in BOOLEAN : Construct(save)
    \/ \E req \in Requests("sessions"), reload \in BOOLEAN :
         GetBehaviorData(req, reload, 0)
    \/ \E req \in Requests("units"), reload \in BOOLEAN : GetUnitData(req, reload, 0)
    \/ \E req \in Requests("fp_data"), reload \in BOOLEAN : GetFpData(req, reload, 0)
    \/ GetLocalData("sessions")
    \/ GetLocalData("units")
    \/ GetLocalData("fp_data")
    \/ Return

SpecLocal == Init /\ [][NextLocal]_vars

\* ------------------------------------------------------- derived notions
\* ids of the rows in the partition files of a kind
PartIds(kind) == UNION {ColValues(parts[kind][s], IdCol(kind)) : s \in DOMAIN parts[kind]}

IndexIds(tables, kind) == ColValues(tables[kind], IdCol(kind))

AfterGet == last.mode = "get"

\* ids handed to the parent-session lookup of a call
LookupIds(events) ==
    UNION {events[i].ids : i \in {j \in 1..Len(events) : events[j].op = "lookup"}}

\* ids the partition of session s held when the call read it
ReadIds(events, s) ==
    UNION {events[i].ids :
              i \in {j \in 1..Len(events) : events[j].op = "read" /\ events[j].sess = s}}

\* the row the remote database and the formatter yield for id x right now
FreshRows(kind, x) == format_rows(kind, fetch_rows(kind, {x}, rev))

\* C1: with save_locally true in every process, over any sequence of get calls
\* and restarts the calls made with reload=False obtain rows from the remote
\* database at most once for any (kind, id).
C1_AtMostOneFetch ==
    \A k \in Kinds : \A i \in Askable(k) : nfetch[k][i] <= 1

\* a unit fetched by an earlier call is asked for again with reload=False and
\* is served without a fetch
C1_Witness ==
    /\ AfterGet /\ last.kind = "units" /\ ~last.reload /\ last.error = "none"
    /\ save_locally
    /\ \E i \in Range(last.ids) :
          /\ nfetch["units"][i] = 1
          /\ i \notin AskedIds(last.events)
          /\ Filter(last.result, "unitid", {i}) # <<>>

\* C2: during get(ids, reload=False) no id recorded in the kind's index table
\* at the start of the call is passed to the remote row fetch.
C2_IndexedNeverFetched ==
    (AfterGet /\ ~last.reload) => AskedIds(last.events) \cap last.known = {}

\* C3: during get(ids, reload=False) for units and fp recordings the
\* parent-session lookup is asked to resolve only ids missing from the index.
C3_LookupOnlyMissing ==
    (AfterGet /\ ~last.reload /\ last.kind \in {"units", "fp_data"})
        => LookupIds(last.events) \cap last.known = {}

\* C4: after a successful get(ids, reload=True) for units or fp recordings,
\* every requested id the remote knows has exactly one row in the returned
\* table and, with save_locally true, exactly one row in its session's
\* partition file, and that row is the freshly fetched, formatted one.
C4_ReloadReplaces ==
    (AfterGet /\ last.reload /\ last.error = "none" /\ last.kind \in {"units", "fp_data"})
        => \A x \in Range(last.ids) \cap (1..NId(last.kind)) :
              LET k == last.kind
                  s == ParentSess(k, x)
              IN /\ Filter(last.result, IdCol(k), {x}) = FreshRows(k, x)
                 /\ save_locally =>
                       /\ s \in DOMAIN parts[k]
                       /\ Filter(parts[k][s], IdCol(k), {x}) = FreshRows(k, x)

\* a stored recording was reloaded after the remote payload had been revised,
\* next to a row of the same partition that was not reloaded
C4_Witness ==
    /\ AfterGet /\ last.reload /\ last.error = "none" /\ last.kind = "fp_data"
    /\ save_locally /\ rev > 1
    /\ \E x \in Range(last.ids) :
          /\ x \in ReadIds(last.events, FpSess(x))
          /\ x \in FetchedIds(last.events)
          /\ Len(parts["fp_data"][FpSess(x)]) > 1
          /\ FreshRows("fp_data", x) # format_rows("fp_data", fetch_rows("fp_data", {x}, 1))

\* C5: each index table holds at most one row per id.
C5_IndexIdsUnique ==
    \A k \in Kinds : \A i \in Askable(k) : CountId(local_data[k], IdCol(k), i) <= 1

\* C6: with save_locally true, whenever a LocalDB object exists (after its
\* construction and after each of its get calls), an id is in a kind's index
\* table, in memory and in the index file, iff it is the id of a row in some
\* partition file of that kind.
C6_IndexMatchesPartitions ==
    (alive /\ save_locally)
        => \A k \in Kinds :
              /\ IndexIds(local_data, k) = PartIds(k)
              /\ index_file.status = "ok" => IndexIds(index_file.data, k) = PartIds(k)

\* a process was constructed by a cold-start rebuild over stored unit and
\* session partitions
C6_Witness ==
    /\ alive /\ save_locally
    /\ last.kind = "construct" /\ last.mode = "rebuilt"
    /\ PartIds("units") # {} /\ PartIds("sessions") # {}

\* C7: for every kind, the index built while fetching ids one at a time with
\* reload=False equals, as a set of rows, the index the cold-start rebuild
\* produces from the partition files when the index file is absent.
C7_RebuildEqualsIncremental ==
    [][(Idle /\ alive /\ last'.kind = "construct" /\ last'.mode \in {"rebuilt", "failed"})
            => /\ alive'
               /\ \A k \in Kinds : Range(local_data'[k]) = Range(local_data[k])]_vars

\* C8: after the cold-start rebuild, the rebuilt index table of every kind
\* holds exactly the ids found in the partition files of that kind.
C8_RebuildMatchesPartitions ==
    (last.kind = "construct" /\ last.mode \in {"rebuilt", "failed"})
        => /\ alive
           /\ \A k \in Kinds : IndexIds(local_data, k) = PartIds(k)

\* ids of the row fetch that failed, if the call ended in one
FailedIds(events) ==
    IF events # <<>> /\ events[Len(events)].op = "fetch"
    THEN events[Len(events)].ids ELSE {}

\* the same request made again, with reload=False and a working remote, on
\* the index table idx and the partition files as they are now
Retry(idx) ==
    IF last.kind = "sessions"
    THEN get_behavior_data(last.ids, FALSE, save_locally, 0, rev, idx, parts["sessions"])
    ELSE get_data(last.kind, last.ids, FALSE, save_locally, 0, rev, idx, parts[last.kind])

\* C9: with save_locally true, when a get with reload=False has merged and
\* flushed some sessions and the fetch for a later session then fails, the
\* same request made again (in this process or after a restart that loads the
\* index file) returns the rows committed before the failure without
\* fetching them, and fetches the ids of the failed session.
C9_RetryAfterFailure ==
    (AfterGet /\ last.error = "RemoteError" /\ ~last.reload /\ save_locally
              /\ FetchedIds(last.events) # {})
        => \A idx \in {local_data[last.kind]} \cup
                      (IF index_file.status = "ok" THEN {index_file.data[last.kind]}
                       ELSE {}) :
              LET again == Retry(idx)
              IN /\ again.err = "none"
                 /\ AskedIds(again.events) \cap FetchedIds(last.events) = {}
                 /\ FetchedIds(last.events) \subseteq ColValues(again.out, IdCol(last.kind))
                 /\ FailedIds(last.events) \subseteq AskedIds(again.events)

\* a call committed one session and failed in the fetch of the next
C9_Witness ==
    /\ AfterGet /\ last.error = "RemoteError" /\ ~last.reload /\ save_locally
    /\ last.kind = "units"
    /\ FetchedIds(last.events) # {}
    /\ FailedIds(last.events) # {}

\* C10: when a remote fetch fails during get, the caller gets the error and
\* no table; the partition file of the failing session is as before the call;
\* the index, in memory and in the index file, holds no row of the failing
\* session it did not hold before; and with save_locally true the partitions
\* and index rows of the sessions processed earlier in the call are on disk.
C10_FailureKeepsCommits ==
    [][(Idle /\ last'.mode = "get" /\ last'.error = "RemoteError")
        => LET k == last'.kind
               ev == last'.events
               s == ev[Len(ev)].sess
               before == Range(Filter(local_data[k], "sessid", {s}))
                           \cup Range(Filter(index_file.data[k], "sessid", {s}))
           IN /\ last'.result = <<>>
              /\ (s \in DOMAIN parts'[k]) = (s \in DOMAIN parts[k])
              /\ s \in DOMAIN parts[k] => parts'[k][s] = parts[k][s]
              /\ Filter(local_data'[k], "sessid", {s}) = Filter(local_data[k], "sessid", {s})
              /\ Range(Filter(index_file'.data[k], "sessid", {s})) \subseteq before
              /\ save_locally =>
                    /\ \A i \in 1..Len(ev) :
                          ev[i].op = "write" =>
                             /\ ev[i].sess \in DOMAIN parts'[k]
                             /\ ColValues(parts'[k][ev[i].sess], IdCol(k)) = ev[i].ids
                    /\ FetchedIds(ev) # {} =>
                          /\ index_file'.status = "ok"
                          /\ FetchedIds(ev) \subseteq IndexIds(index_file'.data, k)]_vars

\* a reload committed one session and failed in the fetch of a session whose
\* partition was already stored
C10_Witness ==
    /\ AfterGet /\ last.error = "RemoteError" /\ save_locally
    /\ FetchedIds(last.events) # {}
    /\ FailedIds(last.events) # {}
    /\ last.events[Len(last.events)].sess \in DOMAIN parts[last.kind]

\* the column that orders the rows of one session in a returned table
SecondKey(kind) == IF kind = "sessions" THEN "trial" ELSE IdCol(kind)

\* tbl is in ascending order of column a, rows equal in a in ascending order of b
SortedBy(tbl, a, b) ==
    \A i \in 1..(Len(tbl) - 1) :
        \/ tbl[i][a] < tbl[i + 1][a]
        \/ tbl[i][a] = tbl[i + 1][a] /\ tbl[i][b] <= tbl[i + 1][b]

\* C11: the table a successful get returns is sorted ascending by session id
\* and, within a session, by the secondary key (trial for behaviour data, the
\* id for units and fp recordings), whatever the order of the requested ids.
C11_ResultSorted ==
    (AfterGet /\ last.error = "none")
        => SortedBy(last.result, "sessid", SecondKey(last.kind))

\* C12: with save_locally false, a get that asks again for ids an earlier get
\* of the same process fetched completes without error (the remote database
\* working) and returns the rows of those ids.
C12_UnsavedSecondGet ==
    (AfterGet /\ ~save_locally /\ last.error # "RemoteError"
              /\ Range(last.ids) \cap last.known # {})
        => /\ last.error = "none"
           /\ Range(last.ids) \cap last.known \subseteq ColValues(last.result, IdCol(last.kind))

\* C13: with save_locally false, neither a construction (the cold-start
\* rebuild included) nor a get of any kind, with or without reload, creates or
\* changes a partition file or the index file.
C13_UnsavedWritesNothing ==
    [][(Idle /\ last'.kind # "none" /\ ~save_locally')
            => /\ parts' = parts
               /\ index_file' = index_file]_vars

\* a process that does not save reloaded a unit whose stored row is stale
C13_Witness ==
    /\ AfterGet /\ ~save_locally /\ last.reload /\ last.error = "none"
    /\ last.kind = "units"
    /\ \E x \in FetchedIds(last.events) :
          /\ UnitSess(x) \in DOMAIN parts["units"]
          /\ Filter(parts["units"][UnitSess(x)], "unitid", {x}) # <<>>
          /\ Filter(parts["units"][UnitSess(x)], "unitid", {x}) # FreshRows("units", x)

\* the formatted rows the remote database holds for the ids S at revision r
RemoteRows(kind, S, r) ==
    IF kind = "sessions"
    THEN UNION {Range(format_sess_data(get_session_data(s, r))) : s \in S}
    ELSE Range(format_rows(kind, fetch_rows(kind, S, r)))

\* C14: on an empty cache, a get whose ids the remote database knows only in
\* part (a non-empty proper subset S of them) raises no error, the remote
\* working, and returns exactly the rows of S.
C14_PartialIdsReturned ==
    [][(Idle /\ last'.mode = "get" /\ last'.error # "RemoteError"
             /\ local_data[last'.kind] = <<>> /\ DOMAIN parts[last'.kind] = {}
             /\ Range(last'.ids) \cap (1..NId(last'.kind)) # {}
             /\ Range(last'.ids) \ (1..NId(last'.kind)) # {})
        => LET k == last'.kind
               S == Range(last'.ids) \cap (1..NId(k))
           IN /\ last'.error = "none"
              /\ ColValues(last'.result, IdCol(k)) = S
              /\ Range(last'.result) = RemoteRows(k, S, rev)]_vars

\* a get on an empty cache asked for an id the remote knows and for one it
\* does not know, and returned rows
C14_Witness ==
    /\ AfterGet /\ last.error = "none" /\ last.known = {}
    /\ ReadIds(last.events, ParentSess(last.kind, 1)) = {}
    /\ last.kind = "fp_data"
    /\ 1 \in Range(last.ids) /\ (NFp + 1) \in Range(last.ids)
    /\ ColValues(last.result, "fpid") = {1}

\* what get(req, reload) returns from the present state with a working remote
GetNow(kind, req, reload) ==
    IF kind = "sessions"
    THEN get_behavior_data(req, reload, save_locally, 0, rev, local_data[kind], parts[kind])
    ELSE get_data(kind, req, reload, save_locally, 0, rev, local_data[kind], parts[kind])

\* C15: a successful get returns the table the same call returns for the
\* requested ids sorted and listed once each; no row is in it twice.
C15_DuplicateIdsIgnored ==
    [][(Idle /\ last'.mode = "get" /\ last'.error = "none")
        => LET once == GetNow(last'.kind, SetToSeq(Range(last'.ids)), last'.reload)
           IN /\ once.err = "none"
              /\ last'.result = once.out
              /\ \A i, j \in 1..Len(last'.result) :
                    last'.result[i] = last'.result[j] => i = j]_vars

\* the construction that has just finished ran the cold-start rebuild
Rebuilt(call) == call.kind = "construct" /\ call.mode \in {"rebuilt", "failed"}

\* C16: a construction over a readable index file runs the cold-start rebuild
\* iff the file is absent or its keys are not exactly the three table names;
\* over a file with exactly those keys it takes the tables as loaded and
\* reads no partition file.
C16_RebuildIffNoIndex ==
    [][(Idle /\ last'.kind = "construct" /\ index_file.status # "corrupt")
        => /\ Rebuilt(last') <=> index_file.status \in {"absent", "badkeys"}
           /\ Rebuilt(last') /\ last'.error = "none"
                 => Len(last'.events) = Cardinality(DOMAIN parts["units"])
                                          + Cardinality(DOMAIN parts["fp_data"])
                                          + Cardinality(DOMAIN parts["sessions"])
           /\ index_file.status = "ok"
                 => /\ last'.mode = "loaded"
                    /\ local_data' = index_file.data
                    /\ last'.events = <<>>]_vars

\* a construction found an index file with the wrong keys and scanned the
\* partition files
C16_Witness ==
    /\ last.kind = "construct" /\ last.mode = "rebuilt"
    /\ ~save_locally /\ index_file.status = "badkeys"
    /\ last.events # <<>>

\* C17: a construction that finds an index file it cannot deserialize treats
\* it as absent: it rebuilds the index from the partition files and succeeds.
C17_CorruptIndexRebuilt ==
    [][(Idle /\ last'.kind = "construct" /\ index_file.status = "corrupt")
        => /\ Rebuilt(last')
           /\ last'.error \in {"none", "KeyError"}]_vars

\* C18: with save_locally true, when a construction has completed the
\* cold-start rebuild the index file holds the rebuilt tables, so that a
\* construction on the same directory would load them without a scan.
C18_RebuildPersisted ==
    (last.kind = "construct" /\ last.mode = "rebuilt" /\ save_locally)
        => /\ index_file = [status |-> "ok", data |-> local_data]
           /\ ~needs_rebuild(index_file)

\* a saving process rebuilt a non-empty index from stored partitions
C18_Witness ==
    /\ last.kind = "construct" /\ last.mode = "rebuilt" /\ save_locally
    /\ last.events # <<>>
    /\ index_file.status = "ok"
    /\ \E k \in Kinds : index_file.data[k] # <<>>

\* C19: no unit or fp partition file ever holds two rows with the same id.
C19_PartitionIdsUnique ==
    \A k \in {"units", "fp_data"} : \A s \in DOMAIN parts[k] : \A i \in Askable(k) :
        CountId(parts[k][s], IdCol(k), i) <= 1

\* a get with reload=False added a fetched recording to a partition file that
\* already held another recording of the session
C19_Witness ==
    /\ AfterGet /\ save_locally /\ last.kind = "fp_data" /\ ~last.reload
    /\ last.error = "none"
    /\ \E s \in DOMAIN parts["fp_data"] :
          /\ ReadIds(last.events, s) # {}
          /\ FetchedIds(last.events) \cap ColValues(parts["fp_data"][s], "fpid") # {}
          /\ FetchedIds(last.events) \cap ReadIds(last.events, s) = {}
          /\ Len(parts["fp_data"][s]) = 2

\* ids of the rows in the partition file of session s in the directory files
FileIds(files, kind, s) ==
    IF s \in DOMAIN files[kind] THEN ColValues(files[kind][s], IdCol(kind)) ELSE {}

\* C20: no step other than a get with reload=True removes an id from a
\* partition file or removes a partition file, and a saving get with
\* reload=False leaves every id it fetched in the partition of its session.
C20_PartitionsOnlyGrow ==
    [][~(Idle /\ last'.mode = "get" /\ last'.reload)
        => /\ \A k \in Kinds : \A s \in DOMAIN parts[k] :
                 /\ s \in DOMAIN parts'[k]
                 /\ FileIds(parts, k, s) \subseteq FileIds(parts', k, s)
           /\ (Idle /\ last'.mode = "get" /\ save_locally)
                 => \A i \in 1..Len(last'.events) :
                       last'.events[i].op = "format"
                          => last'.events[i].ids
                                \subseteq FileIds(parts', last'.kind, last'.events[i].sess)]_vars

\* a get with reload=False read the stored file of one session and created
\* the file of another
C20_Witness ==
    /\ AfterGet /\ save_locally /\ last.kind = "sessions" /\ ~last.reload
    /\ last.error = "none"
    /\ \E s, t \in DOMAIN parts["sessions"] :
          /\ s \in ReadIds(last.events, s)
          /\ t \in FetchedIds(last.events)
          /\ t \notin ReadIds(last.events, t)

\* C21: a process that dies during a partition write of get leaves every
\* partition file that was good before the call good: the file holds its old
\* table or the complete new one, never a cut-off one.
C21_CrashKeepsGoodFile ==
    [][(Idle /\ last'.mode = "get" /\ last'.error = "Crash")
        => \A s \in DOMAIN parts[last'.kind] :
              ~IsTorn(parts[last'.kind][s])
                 => /\ s \in DOMAIN parts'[last'.kind]
                    /\ ~IsTorn(parts'[last'.kind][s])]_vars

\* the sessions whose partition files a get for the ids goes through
SessionsOf(kind, ids) ==
    IF kind = "sessions" THEN Range(ids) ELSE DOMAIN get_sess_ids(kind, Range(ids))

\* the sessions of a request whose partition file cannot be read
TornSessions(kind, ids) ==
    {s \in SessionsOf(kind, ids) : s \in DOMAIN parts[kind] /\ IsTorn(parts[kind][s])}

\* C22: a get that has to read a partition file that cannot be deserialized
\* (any get for units or fp recordings, a get with reload=False for behaviour
\* data) fails with the load error; the file is left as it is, nothing is
\* fetched for its session, and the index rows of that session, in memory and
\* in the index file, are unchanged.
C22_TornPartitionFails ==
    [][(Idle /\ last'.mode = "get" /\ last'.error # "Crash"
             /\ (last'.kind = "sessions" => ~last'.reload)
             /\ TornSessions(last'.kind, last'.ids) # {})
        => LET k == last'.kind
               ev == last'.events
           IN /\ last'.error = "UnpicklingError"
              /\ last'.result = <<>>
              /\ \A s \in TornSessions(k, last'.ids) :
                    /\ s \in DOMAIN parts'[k] /\ IsTorn(parts'[k][s])
                    /\ \A i \in 1..Len(ev) : ev[i].op = "fetch" => ev[i].sess # s
                    /\ Filter(local_data'[k], "sessid", {s})
                          = Filter(local_data[k], "sessid", {s})
                    /\ Range(Filter(index_file'.data[k], "sessid", {s}))
                          \subseteq Range(Filter(local_data[k], "sessid", {s}))
                                      \cup Range(Filter(index_file.data[k], "sessid", {s}))]_vars

\* a get for units stored the rows of one session and then failed to read
\* the cut-off partition file of the next
C22_Witness ==
    /\ AfterGet /\ last.kind = "units" /\ last.error = "UnpicklingError"
    /\ FetchedIds(last.events) # {}
    /\ \E s \in DOMAIN parts["units"] :
          /\ IsTorn(parts["units"][s])
          /\ last.events[Len(last.events)] = Event("read", s, {})

\* row is a remote row of its id, at some revision, formatted exactly once
FormattedOnce(kind, row) ==
    \E r \in 1..MaxRev : row \in RemoteRows(kind, {row[IdCol(kind)]}, r)

\* C23: the formatter runs only on the rows a remote fetch of the same call
\* returned, never on rows read from a partition file: every format step
\* directly follows the fetch of its session and covers only ids of that
\* fetch, and every row a get returns or a partition file holds is a remote
\* row that was formatted exactly once.
C23_FormatOnlyFetched ==
    /\ AfterGet =>
          /\ \A i \in 1..Len(last.events) :
                last.events[i].op = "format"
                   => /\ i > 1
                      /\ last.events[i - 1].op = "fetch"
                      /\ last.events[i - 1].sess = last.events[i].sess
                      /\ last.events[i].ids \subseteq last.events[i - 1].ids
          /\ \A i \in 1..Len(last.result) : FormattedOnce(last.kind, last.result[i])
    /\ \A k \in Kinds : \A s \in DOMAIN parts[k] : \A i \in 1..Len(parts[k][s]) :
          FormattedOnce(k, parts[k][s][i])

\* a get returned a stored unit next to a unit it fetched after the remote
\* payload had been revised
C23_Witness ==
    /\ AfterGet /\ last.kind = "units" /\ last.error = "none" /\ rev > 1
    /\ \E x, y \in ColValues(last.result, "unitid") :
          /\ x \in ReadIds(last.events, UnitSess(x))
          /\ x \notin AskedIds(last.events)
          /\ y \in FetchedIds(last.events)
          /\ Filter(last.result, "unitid", {x}) # FreshRows("units", x)

\* the session of the remote row with the given id
RowSess(kind, id) == IF kind = "sessions" THEN id ELSE ParentSess(kind, id)

\* C24: every formatter call of a get receives rows of one session only, the
\* session the loop is at.
C24_FormatOneSession ==
    AfterGet
        => \A i \in 1..Len(last.events) :
              last.events[i].op = "format"
                 => \A x \in last.events[i].ids : RowSess(last.kind, x) = last.events[i].sess

\* one get for units ran the formatter for two sessions
C24_Witness ==
    /\ AfterGet /\ last.kind = "units" /\ last.error = "none"
    /\ \E i, j \in 1..Len(last.events) :
          /\ last.events[i].op = "format" /\ last.events[j].op = "format"
          /\ last.events[i].ids # {} /\ last.events[j].ids # {}
          /\ last.events[i].sess # last.events[j].sess

\* the steps of a call that belong to a session
SessEvents(events) ==
    {i \in 1..Len(events) : events[i].op # "lookup"}

\* C25: a get goes through its sessions in ascending order of session id; for
\* a session it fetches for, a saving process writes the partition file, then
\* updates the index, then flushes the index file, and only then turns to the
\* next session.
C25_SessionOrder ==
    AfterGet
        => LET ev == last.events
           IN /\ \A i, j \in SessEvents(ev) : i < j => ev[i].sess <= ev[j].sess
              /\ \A i \in 1..Len(ev) :
                    /\ ev[i].op = "write" /\ last.error # "Crash"
                          => /\ i + 2 <= Len(ev)
                             /\ ev[i + 1].op = "index" /\ ev[i + 1].sess = ev[i].sess
                             /\ ev[i + 2].op = "flush" /\ ev[i + 2].sess = ev[i].sess
                    /\ ev[i].op = "index"
                          => /\ i > 1
                             /\ ev[i - 1].op = (IF save_locally THEN "write" ELSE "format")
                             /\ ev[i - 1].sess = ev[i].sess
                    /\ ev[i].op = "fetch"
                          => \A j \in 1..(i - 1) :
                                ev[j].op \in {"write", "index"}
                                   => \E m \in j..(i - 1) :
                                         ev[m].op = (IF save_locally THEN "flush" ELSE "index")
                                            /\ ev[m].sess = ev[j].sess

\* a saving get for behaviour data stored two sessions
C25_Witness ==
    /\ AfterGet /\ last.kind = "sessions" /\ save_locally /\ last.error = "none"
    /\ \E i, j \in 1..Len(last.events) :
          /\ last.events[i].op = "flush" /\ last.events[j].op = "fetch"
          /\ i < j
          /\ last.events[i].sess < last.events[j].sess

\* C26: a saving get(ids, reload=True) for units or fp recordings leaves
\* every stored row whose id it did not fetch in its partition file as it
\* was, and the rows of a fetched id in the file are the fetched ones.
C26_ReloadKeepsOthers ==
    [][(Idle /\ last'.mode = "get" /\ last'.reload /\ save_locally
             /\ last'.kind \in {"units", "fp_data"})
        => LET k == last'.kind
               got == FetchedIds(last'.events)
           IN \A s \in DOMAIN parts[k] :
                 /\ s \in DOMAIN parts'[k]
                 /\ DropRows(parts'[k][s], IdCol(k), got) = DropRows(parts[k][s], IdCol(k), got)
                 /\ \A x \in got \cap ColValues(parts[k][s], IdCol(k)) :
                       Filter(parts'[k][s], IdCol(k), {x}) = FreshRows(k, x)]_vars

\* a reload replaced one recording of a partition file and left the other,
\* whose stored row is older than the remote one
C26_Witness ==
    /\ AfterGet /\ last.reload /\ save_locally /\ last.kind = "fp_data"
    /\ last.error = "none"
    /\ \E x, y \in ColValues(parts["fp_data"][1], "fpid") :
          /\ x \in FetchedIds(last.events)
          /\ y \notin FetchedIds(last.events)
          /\ x \in ReadIds(last.events, 1) /\ y \in ReadIds(last.events, 1)
          /\ Filter(parts["fp_data"][1], "fpid", {y}) # FreshRows("fp_data", y)

\* C27: the rows a successful get for units or fp recordings returns from a
\* session are exactly the rows of the session's partition, as it is after
\* the call, whose ids are in the request.
C27_ResultIsRequestedRows ==
    (AfterGet /\ last.error = "none" /\ save_locally /\ last.kind \in {"units", "fp_data"})
        => LET k == last.kind
               asked == Range(last.ids)
           IN /\ \A s \in SessionsOf(k, last.ids) :
                    /\ s \in DOMAIN parts[k]
                    /\ {row \in Range(last.result) : row.sessid = s}
                          = {row \in Range(parts[k][s]) : row[IdCol(k)] \in asked}
              /\ ColValues(last.result, "sessid") \subseteq SessionsOf(k, last.ids)
              /\ \A x \in asked : CountId(last.result, IdCol(k), x) <= 1

\* a get returned one recording of a partition file that holds two
C27_Witness ==
    /\ AfterGet /\ last.error = "none" /\ save_locally /\ last.kind = "fp_data"
    /\ \E s \in DOMAIN parts["fp_data"] :
          /\ Len(parts["fp_data"][s]) = 2
          /\ Cardinality(ColValues(last.result, "fpid") \cap ReadIds(last.events, s)) = 1
          /\ Len(last.result) = 1

\* how many index updates a call made for session s
IndexUpdates(events, s) ==
    Cardinality({i \in 1..Len(events) : events[i].op = "index" /\ events[i].sess = s})

\* C28: every update of the sessions index with the fetched rows of a session
\* adds exactly one row, the (sessid, subjid, sessiondate) of the session,
\* however many trials were fetched.
C28_OneIndexRowPerSession ==
    [][(Idle /\ last'.mode = "get" /\ last'.kind = "sessions")
        => /\ \A s \in Askable("sessions") :
                 CountId(local_data'["sessions"], "sessid", s)
                    = CountId(local_data["sessions"], "sessid", s)
                         + IndexUpdates(last'.events, s)
           /\ \A row \in Range(local_data'["sessions"]) :
                 row = [sessid |-> row.sessid, subjid |-> SubjOf(row.sessid),
                        sessiondate |-> DateOf(row.sessid)]]_vars

\* a session fetched with all its trials has one row in the sessions index
C28_Witness ==
    /\ AfterGet /\ last.kind = "sessions" /\ last.error = "none"
    /\ \E s \in FetchedIds(last.events) :
          /\ CountId(last.result, "sessid", s) = NTrial
          /\ CountId(local_data["sessions"], "sessid", s) = 1

\* the steps of a call at session s other than the fetch
StepsAfterFetch(events, s) ==
    {i \in 1..Len(events) : events[i].sess = s /\ events[i].op # "fetch"}

\* C29: in a successful get for behaviour data, a requested session id for
\* which the remote database has no rows gets no partition file and no row
\* in the sessions index, the formatter is not run for it, and the other
\* requested sessions are returned all the same.
C29_EmptySessionSkipped ==
    [][(Idle /\ last'.mode = "get" /\ last'.kind = "sessions" /\ last'.error = "none")
        => /\ \A p \in Range(last'.ids) \ (1..NSess) :
                 /\ p \notin DOMAIN parts'["sessions"]
                 /\ CountId(local_data'["sessions"], "sessid", p) = 0
                 /\ StepsAfterFetch(last'.events, p) = {}
           /\ ColValues(last'.result, "sessid") = Range(last'.ids) \cap (1..NSess)
           /\ \A s \in Range(last'.ids) \cap (1..NSess) :
                 /\ StepsAfterFetch(last'.events, s) # {}
                 /\ save_locally => s \in DOMAIN parts'["sessions"]]_vars

\* a saving get skipped a session the remote does not have and then fetched
\* and stored a later one
C29_Witness ==
    /\ AfterGet /\ last.kind = "sessions" /\ last.error = "none" /\ save_locally
    /\ \E i, j \in 1..Len(last.events) :
          /\ i < j
          /\ last.events[i].op = "fetch" /\ last.events[i].sess \notin 1..NSess
          /\ last.events[j].op = "write" /\ last.events[j].sess \in 1..NSess

\* C30: with save_locally true, a construction that succeeds leaves the index
\* file equal to the in-memory index tables, and a get that changes the
\* in-memory tables, or starts with the file equal to them, leaves the file
\* equal to them when it returns.
C30_IndexFileIsMemory ==
    [][(Idle /\ last'.kind # "none" /\ save_locally' /\ alive')
        => \/ index_file' = [status |-> "ok", data |-> local_data']
           \/ /\ last'.mode = "get"
              /\ local_data' = local_data
              /\ index_file' = index_file
              /\ index_file # [status |-> "ok", data |-> local_data]]_vars

\* a saving get that failed in a later session returned with the index rows
\* of the earlier session in memory and in the index file
C30_Witness ==
    /\ AfterGet /\ save_locally /\ last.error = "RemoteError"
    /\ last.kind = "units"
    /\ FetchedIds(last.events) # {}
    /\ index_file = [status |-> "ok", data |-> local_data]
    /\ IndexIds(local_data, "units") = FetchedIds(last.events)

\* a get_local call of the given kind has just finished
AfterLocal(kind) == last.mode = "local" /\ last.kind = kind

\* rows of the behaviour partition files in the data directory
StoredTrials == UNION {Range(parts["sessions"][s]) : s \in DOMAIN parts["sessions"]}

\* C31: get_local_behavior_data returns all behavioural data stored locally,
\* and no stored trial row appears in its result more than once, whatever
\* get_behavior_data calls (reload=True on stored sessions included) came before
C31_LocalBehaviorOnce ==
    (AfterLocal("sessions") /\ save_locally /\ last.error = "none") =>
        /\ Range(last.result) = StoredTrials
        /\ \A i, j \in 1..Len(last.result) :
                last.result[i] = last.result[j] => i = j

\* C32: get_local_fp_data completes without error and returns the rows of
\* exactly the fp ids in the fp index table
C32_LocalFpData ==
    (AfterLocal("fp_data") /\ last.known # {}) =>
        /\ last.error = "none"
        /\ ColValues(last.result, "fpid") = last.known

====
